---------------------------- MODULE Spec2Model ----------------------------
(* Model of backend/app/monitoring/sentry.py: the monitoring initializer    *)
(* init_sentry and the pre-send hook _before_send_filter.                    *)
(*                                                                           *)
(* Python values are tagged records: [t |-> "None"], [t |-> "str", ...],     *)
(* [t |-> "dict", d |-> <function from keys to values>], [t |-> "list", ...],*)
(* [t |-> "tuple", ...], [t |-> "type", ...], [t |-> "exc", ...].            *)
(* Text that the code lower-cases or searches (header names, exception       *)
(* messages) is a sequence of one-character strings.                         *)
EXTENDS Integers, Sequences, FiniteSets, TLC

VARIABLES
    pc,        \* "startup" before init_sentry has run, "running" after
    settings,  \* the Settings object handed to init_sentry
    sdk,       \* process-wide SDK client state: NotInitialized or the init options
    log,       \* records emitted on the module logger, in order
    tracked,   \* responses seen by the FastAPI integration: [status, failed]
    event,     \* the event dict the SDK hands to before_send (mutated in place)
    hint,      \* the hint dict of that capture
    original,  \* contents of the event dict when it was captured
    result,    \* outcome of the latest before_send call on the event
    first,     \* event contents and outcome after the first before_send call
    passes     \* number of before_send calls made on the captured event

vars == <<pc, settings, sdk, log, tracked, event, hint, original, result, first, passes>>

-----------------------------------------------------------------------------
(* Bounds of the model *)

\* largest number of headers in a request snapshot
MaxHeaders == 2
\* number of times before_send is applied to one captured event
MaxPasses == 2

-----------------------------------------------------------------------------
(* Python values *)

PyNone == [t |-> "None"]
PyStr(s) == [t |-> "str", s |-> s]
PyDict(f) == [t |-> "dict", d |-> f]
PyList(l) == [t |-> "list", l |-> l]
PyTuple(l) == [t |-> "tuple", l |-> l]
PyType(n) == [t |-> "type", name |-> n]
PyExc(msg) == [t |-> "exc", msg |-> msg]

\* marks an attribute or key that is not there (never a Python value itself)
Absent == [t |-> "absent"]
OptKey(k, v) == IF v = Absent THEN <<>> ELSE k :> v

UpperChars == <<"A","B","C","D","E","F","G","H","I","J","K","L","M",
                "N","O","P","Q","R","S","T","U","V","W","X","Y","Z">>
LowerChars == <<"a","b","c","d","e","f","g","h","i","j","k","l","m",
                "n","o","p","q","r","s","t","u","v","w","x","y","z">>

\* str.lower() on one character
LowerChar(c) ==
    IF \E i \in 1..Len(UpperChars) : UpperChars[i] = c
    THEN LowerChars[CHOOSE i \in 1..Len(UpperChars) : UpperChars[i] = c]
    ELSE c

\* str.lower()
Lower(s) == [i \in 1..Len(s) |-> LowerChar(s[i])]

\* `sub in s` for two strings
Contains(s, sub) ==
    \E i \in 0..(Len(s) - Len(sub)) :
        \A j \in 1..Len(sub) : s[i + j] = sub[j]

\* str(exc_value)
Str(v) ==
    IF v.t = "exc" THEN v.msg
    ELSE IF v.t = "None" THEN <<"N","o","n","e">>
    ELSE <<>>

\* outcome of `key in container`: "yes", "no", or "TypeError" when the
\* container is not iterable
PyIn(key, container) ==
    IF container.t = "dict" THEN (IF key \in DOMAIN container.d THEN "yes" ELSE "no")
    ELSE IF container.t = "list"
         THEN (IF \E i \in 1..Len(container.l) : container.l[i] = key THEN "yes" ELSE "no")
    ELSE "TypeError"


\* outcome of `obj[key] = value`: the object after the store, or the exception
PySetItem(obj, key, value) ==
    IF obj.t = "dict"
    THEN [exc |-> "none",
          obj |-> PyDict([k \in DOMAIN obj.d \cup {key} |->
                             IF k = key THEN value ELSE obj.d[k]])]
    ELSE [exc |-> "TypeError", obj |-> obj]

\* truth value of a settings attribute
Truthy(v) == v.t = "str" /\ v.s # ""

-----------------------------------------------------------------------------
(* _before_send_filter *)

sensitive_headers ==
    << <<"a","u","t","h","o","r","i","z","a","t","i","o","n">>,
       <<"c","o","o","k","i","e">>,
       <<"x","-","a","p","i","-","k","e","y">> >>

\* the redaction marker
Filtered == PyStr("[Filtered]")

redis == <<"r","e","d","i","s">>

\* variant: the text is searched without lower-casing it
IsRedisConnectionError_CaseSensitive(exc_type, exc_value) ==
    /\ exc_type.name = "ConnectionError"
    /\ Contains(Str(exc_value), redis)

\* the Redis ConnectionError test on an unpacked exc_info triple
IsRedisConnectionError(exc_type, exc_value) ==
    /\ exc_type.name = "ConnectionError"
    /\ Contains(Lower(Str(exc_value)), redis)

\* the exc_info block: "drop", "continue", or the exception it raises
ExcInfoStep(h) ==
    IF "exc_info" \notin DOMAIN h.d THEN "continue"
    ELSE LET exc_info == h.d["exc_info"] IN
         IF exc_info.t # "tuple" THEN "TypeError"
         ELSE IF Len(exc_info.l) # 3 THEN "ValueError"
         ELSE LET exc_type == exc_info.l[1]
                  exc_value == exc_info.l[2]
              IN  IF exc_type.t # "type" THEN "AttributeError"
                  ELSE IF IsRedisConnectionError(exc_type, exc_value) THEN "drop"
                  ELSE "continue"

\* the loop over sensitive_headers from index i on
RECURSIVE RedactHeaders(_, _)
RedactHeaders(headers, i) ==
    IF i > Len(sensitive_headers) THEN [exc |-> "none", obj |-> headers]
    ELSE LET header == sensitive_headers[i]
             found == PyIn(header, headers)
         IN  IF found = "TypeError" THEN [exc |-> "TypeError", obj |-> headers]
             ELSE IF found = "no" THEN RedactHeaders(headers, i + 1)
             ELSE LET stored == PySetItem(headers, header, Filtered)
                  IN  IF stored.exc # "none" THEN stored
                      ELSE RedactHeaders(stored.obj, i + 1)

\* the "headers" block on the request dict
RedactRequestHeaders(request) ==
    LET found == PyIn("headers", request) IN
    IF found = "TypeError" THEN [exc |-> "TypeError", obj |-> request]
    ELSE IF found = "no" THEN [exc |-> "none", obj |-> request]
    ELSE LET r == RedactHeaders(request.d["headers"], 1)
         IN  [exc |-> r.exc,
              obj |-> PyDict([request.d EXCEPT !["headers"] = r.obj])]

\* the "data" block on the request dict
RedactRequestData(request) ==
    IF PyIn("data", request) = "yes"
    THEN PySetItem(request, "data", Filtered)
    ELSE [exc |-> "none", obj |-> request]

\* variant: the body is redacted inside the "headers" block only
SanitizeRequest_DataUnderHeaders(e) ==
    LET found == PyIn("request", e) IN
    IF found = "TypeError" THEN [exc |-> "TypeError", obj |-> e]
    ELSE IF found = "no" THEN [exc |-> "none", obj |-> e]
    ELSE LET h == RedactRequestHeaders(e.d["request"])
             b == IF h.exc = "none" /\ PyIn("headers", h.obj) = "yes"
                  THEN RedactRequestData(h.obj) ELSE h
         IN  [exc |-> b.exc, obj |-> PyDict([e.d EXCEPT !["request"] = b.obj])]

\* the "request" block on the event
SanitizeRequest(e) ==
    LET found == PyIn("request", e) IN
    IF found = "TypeError" THEN [exc |-> "TypeError", obj |-> e]
    ELSE IF found = "no" THEN [exc |-> "none", obj |-> e]
    ELSE LET h == RedactRequestHeaders(e.d["request"])
             b == IF h.exc = "none" THEN RedactRequestData(h.obj) ELSE h
         IN  [exc |-> b.exc, obj |-> PyDict([e.d EXCEPT !["request"] = b.obj])]

\* variant: the request is sanitized before the exc_info block runs
SanitizeBeforeDrop(e, h) ==
    LET s == SanitizeRequest(e)
        x == ExcInfoStep(h)
    IN  IF s.exc # "none"
        THEN [outcome |-> "raise", exc |-> s.exc, event |-> s.obj]
        ELSE IF x = "drop" THEN [outcome |-> "drop", exc |-> "none", event |-> s.obj]
        ELSE IF x # "continue" THEN [outcome |-> "raise", exc |-> x, event |-> s.obj]
        ELSE [outcome |-> "return", exc |-> "none", event |-> s.obj]

\* _before_send_filter(event, hint): how the call ends ("return" the event,
\* "drop" = return None, or "raise" with exception exc) and the contents of
\* the event object when it ends
_before_send_filter(e, h) ==
    LET x == ExcInfoStep(h) IN
    IF x = "drop" THEN [outcome |-> "drop", exc |-> "none", event |-> e]
    ELSE IF x # "continue" THEN [outcome |-> "raise", exc |-> x, event |-> e]
    ELSE LET s == SanitizeRequest(e)
         IN  IF s.exc # "none"
             THEN [outcome |-> "raise", exc |-> s.exc, event |-> s.obj]
             ELSE [outcome |-> "return", exc |-> "none", event |-> s.obj]

-----------------------------------------------------------------------------
(* init_sentry *)

NotInitialized == [t |-> "uninitialized"]

\* getattr(settings, "APP_ENV", "development")
Environment(st) ==
    IF st.APP_ENV = Absent THEN PyStr("development") ELSE st.APP_ENV

\* hasattr(settings, "GIT_COMMIT_SHA")
HasRelease(st) == st.GIT_COMMIT_SHA # Absent

\* the release keyword of sentry_sdk.init
SdkRelease(st) == IF HasRelease(st) THEN st.GIT_COMMIT_SHA ELSE PyNone

\* the "release" entry of the log record
LogRelease(st) == IF HasRelease(st) THEN st.GIT_COMMIT_SHA ELSE PyStr("unknown")

\* variant: the two rates the wrong way round
TracesSampleRate_Swapped(environment) ==
    IF environment # PyStr("production") THEN 10 ELSE 100

\* traces_sample_rate in percent: 1.0 if environment != "production" else 0.1
TracesSampleRate(environment) ==
    IF environment # PyStr("production") THEN 100 ELSE 10

\* sample_rate in percent
SampleRate == 100

\* failed_request_status_codes of FastApiIntegration
failed_request_status_codes == <<500, 599>>

\* the keyword arguments of sentry_sdk.init
SdkInitArgs(st) ==
    [dsn |-> st.SENTRY_DSN,
     environment |-> Environment(st),
     release |-> SdkRelease(st),
     integrations |-> {"FastApiIntegration", "RedisIntegration", "LoggingIntegration"},
     transaction_style |-> "endpoint",
     failed_request_status_codes |-> failed_request_status_codes,
     traces_sample_rate |-> TracesSampleRate(Environment(st)),
     sample_rate |-> SampleRate,
     attach_stacktrace |-> TRUE,
     send_default_pii |-> FALSE,
     before_send |-> "_before_send_filter"]

\* sentry_sdk.init(**options) on the process-wide client state
SdkInit(client, options) ==
    [t |-> "client",
     options |-> options,
     inits |-> (IF client.t = "client" THEN client.inits ELSE 0) + 1]

WarningRecord ==
    [level |-> "WARNING",
     msg |-> "Sentry DSN not configured - error tracking disabled"]

InfoRecord(st) ==
    [level |-> "INFO",
     msg |-> "Sentry initialized",
     environment |-> Environment(st),
     release |-> LogRelease(st),
     traces_sample_rate |-> TracesSampleRate(Environment(st))]

\* variant: the warning branch does not return
InitSentryEffect_NoEarlyReturn(st, client, records) ==
    LET warned == IF ~Truthy(st.SENTRY_DSN)
                  THEN Append(records, WarningRecord) ELSE records
    IN  [sdk |-> SdkInit(client, SdkInitArgs(st)),
         log |-> Append(warned, InfoRecord(st))]

\* init_sentry(settings): the SDK state and the log records it leaves
InitSentryEffect(st, client, records) ==
    IF ~Truthy(st.SENTRY_DSN)
    THEN [sdk |-> client, log |-> Append(records, WarningRecord)]
    ELSE [sdk |-> SdkInit(client, SdkInitArgs(st)),
          log |-> Append(records, InfoRecord(st))]

\* whether the request-tracking hook reports a response status as failed
IsFailedRequest(client, status) ==
    \E i \in 1..Len(client.options.failed_request_status_codes) :
        client.options.failed_request_status_codes[i] = status

-----------------------------------------------------------------------------
(* Inputs *)

DsnValues == {PyNone, PyStr(""), PyStr("https://key@sentry.example/1")}
EnvValues == {Absent, PyNone, PyStr("production"), PyStr("development"),
              PyStr("staging"), PyStr("Production")}
ShaValues == {Absent, PyNone, PyStr(""), PyStr("3f2a9c1")}

SettingsValues ==
    [SENTRY_DSN : DsnValues, APP_ENV : EnvValues, GIT_COMMIT_SHA : ShaValues]

StatusCodes == 100..599

HeaderNames ==
    { <<"a","u","t","h","o","r","i","z","a","t","i","o","n">>, <<"A","u","t","h","o","r","i","z","a","t","i","o","n">>,
      <<"c","o","o","k","i","e">>, <<"C","O","O","K","I","E">>,
      <<"x","-","a","p","i","-","k","e","y">>, <<"X","-","A","p","i","-","K","e","y">>,
      <<"a","c","c","e","p","t">> }

HeaderValues == {PyStr("secret"), Filtered}

\* dicts of at most MaxHeaders headers
HeaderDicts ==
    UNION { { PyDict(f) : f \in [S -> HeaderValues] } :
            S \in { T \in SUBSET HeaderNames : Cardinality(T) <= MaxHeaders } }

\* the "headers" entry of a request snapshot: a mapping, or not one
HeadersValues ==
    HeaderDicts \cup {PyNone, PyList(<<<<"a","u","t","h","o","r","i","z","a","t","i","o","n">>>>), PyList(<<<<"a","c","c","e","p","t">>>>)}

DataValues == {PyStr("{\"message\": \"NYC to LAX\"}"), Filtered}

RequestValues ==
    { PyDict(OptKey("headers", hs) @@ OptKey("data", b) @@ ("url" :> PyStr("/api/v1/chat/message"))) :
        hs \in HeadersValues \cup {Absent}, b \in DataValues \cup {Absent} }
    \cup {PyNone}

TagsValues == {PyDict("session_id" :> PyStr("abc123"))}

Events ==
    { PyDict(OptKey("request", r) @@ OptKey("tags", tg) @@ ("level" :> PyStr("error"))) :
        r \in RequestValues \cup {Absent}, tg \in TagsValues \cup {Absent} }

ExcTypes == {PyType("ConnectionError"), PyType("ConnectionResetError")}

ExcValues ==
    { PyExc(<<"r","e","d","i","s"," ","d","o","w","n">>), PyExc(<<"t","o"," ","R","e","d","i","s">>),
      PyExc(<<"R","E","D","I","S">>), PyExc(<<"r","e","d"," ","i","s">>),
      PyExc(<<"t","i","m","e","o","u","t">>) }

ExcInfos ==
    { PyTuple(<<ty, v, PyNone>>) : ty \in ExcTypes, v \in ExcValues }
    \cup { PyTuple(<<PyNone, PyNone, PyNone>>),
           PyTuple(<<PyType("ConnectionError"), PyExc(<<"r","e","d","i","s"," ","d","o","w","n">>)>>),
           PyNone }

Hints == { PyDict(OptKey("exc_info", x)) : x \in ExcInfos \cup {Absent} }

\* settings of a process whose monitoring is configured
ConfiguredSettings ==
    [SENTRY_DSN : {PyStr("https://key@sentry.example/1")},
     APP_ENV : {PyStr("production"), PyStr("development")},
     GIT_COMMIT_SHA : {PyStr("3f2a9c1")}]

-----------------------------------------------------------------------------
(* State machine *)

NoResponse == [t |-> "none"]
NoResult == [outcome |-> "none", exc |-> "none"]
NoFirst == [event |-> PyNone, result |-> NoResult]

\* process start: nothing initialized, nothing captured
Init ==
    /\ pc = "startup"
    /\ settings \in SettingsValues
    /\ sdk = NotInitialized
    /\ log = <<>>
    /\ tracked = NoResponse
    /\ event = PyNone
    /\ hint = PyNone
    /\ original = PyNone
    /\ result = NoResult
    /\ first = NoFirst
    /\ passes = 0

\* the application calls init_sentry(settings) once at startup
InitSentry ==
    /\ pc = "startup"
    /\ LET r == InitSentryEffect(settings, sdk, log)
       IN  /\ sdk' = r.sdk
           /\ log' = r.log
    /\ pc' = "running"
    /\ UNCHANGED <<settings, tracked, event, hint, original, result, first, passes>>

\* the request-tracking hook sees a response with the given status
HandleResponse ==
    /\ pc = "running"
    /\ sdk.t = "client"
    /\ \E status \in StatusCodes :
         tracked' = [t |-> "response", status |-> status,
                     failed |-> IsFailedRequest(sdk, status)]
    /\ UNCHANGED <<pc, settings, sdk, log, event, hint, original, result, first, passes>>

\* the SDK captures an event and is about to run the registered pre-send hook
Capture ==
    /\ pc = "running"
    /\ sdk.t = "client"
    /\ sdk.options.before_send = "_before_send_filter"
    /\ event = PyNone
    /\ \E e \in Events, h \in Hints :
         /\ event' = e
         /\ hint' = h
         /\ original' = e
    /\ result' = NoResult
    /\ first' = NoFirst
    /\ passes' = 0
    /\ UNCHANGED <<pc, settings, sdk, log, tracked>>

\* one call of _before_send_filter: on the captured event, and afterwards on
\* what the previous call returned (the event, or None after a drop)
BeforeSend ==
    /\ event # PyNone
    /\ passes < MaxPasses
    /\ LET arg == IF result.outcome = "drop" THEN PyNone ELSE event
           r == _before_send_filter(arg, hint)
           res == [outcome |-> r.outcome, exc |-> r.exc]
           ev == IF arg = PyNone THEN event ELSE r.event
       IN  /\ event' = ev
           /\ result' = res
           /\ first' = IF passes = 0 THEN [event |-> ev, result |-> res] ELSE first
    /\ passes' = passes + 1
    /\ UNCHANGED <<pc, settings, sdk, log, tracked, hint, original>>

Next ==
    \/ InitSentry
    \/ HandleResponse

Spec == Init /\ [][Next]_vars

\* a running process after init_sentry configured the SDK
FilterInit ==
    /\ pc = "running"
    /\ settings \in ConfiguredSettings
    /\ LET r == InitSentryEffect(settings, NotInitialized, <<>>)
       IN  /\ sdk = r.sdk
           /\ log = r.log
    /\ tracked = NoResponse
    /\ event = PyNone
    /\ hint = PyNone
    /\ original = PyNone
    /\ result = NoResult
    /\ first = NoFirst
    /\ passes = 0

FilterNext ==
    \/ Capture
    \/ BeforeSend

FilterSpec == FilterInit /\ [][FilterNext]_vars

-----------------------------------------------------------------------------
(* Vocabulary of the properties *)

\* a before_send call has ended on the captured event
Filtered1 == event # PyNone /\ passes >= 1

\* the event has a request snapshot that is a dict
HasRequest(e) == "request" \in DOMAIN e.d /\ e.d["request"].t = "dict"

\* the request snapshot has a headers mapping
HasHeaderMap(e) ==
    /\ HasRequest(e)
    /\ "headers" \in DOMAIN e.d["request"].d
    /\ e.d["request"].d["headers"].t = "dict"

HeaderMap(e) == e.d["request"].d["headers"].d

\* the request snapshot has a body field
HasData(e) == HasRequest(e) /\ "data" \in DOMAIN e.d["request"].d

\* a header name on the deny-list, exactly as the list spells it
DenyListed(name) == \E i \in 1..Len(sensitive_headers) : sensitive_headers[i] = name

\* a header name that is on the deny-list once its casing is normalized
DenyListedAnyCase(name) == DenyListed(Lower(name))

\* the hint carries a well-formed exc_info triple of a ConnectionError whose
\* text mentions redis in any letter case
RedisDropCase(h) ==
    /\ "exc_info" \in DOMAIN h.d
    /\ h.d["exc_info"].t = "tuple"
    /\ Len(h.d["exc_info"].l) = 3
    /\ h.d["exc_info"].l[1].t = "type"
    /\ h.d["exc_info"].l[1].name = "ConnectionError"
    /\ \E i \in 0..(Len(Str(h.d["exc_info"].l[2])) - Len(redis)) :
          \A j \in 1..Len(redis) :
              LowerChar(Str(h.d["exc_info"].l[2])[i + j]) = redis[j]

\* headers values a and b have the same keys and differ at most in the values
\* of deny-listed keys
SameHeadersExceptRedaction(a, b) ==
    /\ a.t = b.t
    /\ IF a.t = "dict"
       THEN /\ DOMAIN a.d = DOMAIN b.d
            /\ \A k \in DOMAIN a.d : DenyListed(k) \/ a.d[k] = b.d[k]
       ELSE a = b

\* request snapshots a and b differ at most in deny-listed header values and
\* in the value of the body
SameRequestExceptRedaction(a, b) ==
    /\ a.t = b.t
    /\ IF a.t = "dict"
       THEN /\ DOMAIN a.d = DOMAIN b.d
            /\ \A k \in DOMAIN a.d :
                 CASE k = "data" -> TRUE
                   [] k = "headers" -> SameHeadersExceptRedaction(a.d[k], b.d[k])
                   [] OTHER -> a.d[k] = b.d[k]
       ELSE a = b

\* events a and b differ at most in deny-listed header values and the body
SameEventExceptRedaction(a, b) ==
    /\ DOMAIN a.d = DOMAIN b.d
    /\ \A k \in DOMAIN a.d :
         IF k = "request" THEN SameRequestExceptRedaction(a.d[k], b.d[k])
         ELSE a.d[k] = b.d[k]

-----------------------------------------------------------------------------
(* Properties *)

\* C1: when the filter returns an event whose request snapshot has a headers
\* map, every header whose name matches authorization, cookie or x-api-key
\* under casing normalization has the value "[Filtered]", and every other
\* header key and value is as it was.
C1_HeadersRedactedAnyCase ==
    (Filtered1 /\ result.outcome = "return" /\ HasHeaderMap(original)) =>
        /\ HasHeaderMap(event)
        /\ DOMAIN HeaderMap(event) = DOMAIN HeaderMap(original)
        /\ \A k \in DOMAIN HeaderMap(original) :
             IF DenyListedAnyCase(k)
             THEN HeaderMap(event)[k] = Filtered
             ELSE HeaderMap(event)[k] = HeaderMap(original)[k]

\* What the code does for headers: the same statement with the deny-list
\* matched on the exact lowercase spelling only.
HeadersRedactedExactCase ==
    (Filtered1 /\ result.outcome = "return" /\ HasHeaderMap(original)) =>
        /\ HasHeaderMap(event)
        /\ DOMAIN HeaderMap(event) = DOMAIN HeaderMap(original)
        /\ \A k \in DOMAIN HeaderMap(original) :
             IF DenyListed(k)
             THEN HeaderMap(event)[k] = Filtered
             ELSE HeaderMap(event)[k] = HeaderMap(original)[k]

\* C2: when the filter returns an event whose request snapshot has a body
\* field, the body is exactly "[Filtered]", whatever it was and whether or
\* not the snapshot has a headers field.
C2_BodyRedacted ==
    (Filtered1 /\ result.outcome = "return" /\ HasData(original)) =>
        /\ HasData(event)
        /\ event.d["request"].d["data"] = Filtered

\* a returned event with a body, no headers field, and a body that was not
\* the marker before
C2_Witness ==
    /\ Filtered1
    /\ result.outcome = "return"
    /\ HasData(original)
    /\ "headers" \notin DOMAIN original.d["request"].d
    /\ original.d["request"].d["data"] # Filtered
    /\ event.d["request"].d["data"] = Filtered

C4_NeverRaises ==
    Filtered1 => result.outcome \in {"return", "drop"}

\* C5: when the hint is not the Redis ConnectionError drop case, the filter
\* returns the event, and the event differs from the captured one at most in
\* the values of deny-listed headers and of the body.
C5_ReturnsEventFrame ==
    (Filtered1 /\ ~RedisDropCase(hint)) =>
        /\ result.outcome = "return"
        /\ SameEventExceptRedaction(original, event)

\* What the code does for the frame: whenever the filter returns the event,
\* it differs from the captured one at most in deny-listed header values and
\* the body.
FrameWhenReturned ==
    (Filtered1 /\ result.outcome = "return") =>
        SameEventExceptRedaction(original, event)

\* C6: a second call of the filter, on what the first call produced and with
\* the same hint, ends as the first did and leaves the event as the first
\* call left it.
C6_Idempotent ==
    (event # PyNone /\ passes >= 2) =>
        /\ result = first.result
        /\ event = first.event

\* two calls made, the first one redacted something
C6_Witness ==
    /\ event # PyNone
    /\ passes = 2
    /\ result.outcome = "return"
    /\ first.event # original
    /\ event = first.event

\* C7: after init_sentry, with the connection string None or empty the SDK
\* state is untouched and the log holds exactly one record, a warning; with
\* a connection string the SDK was initialized exactly once with
\* _before_send_filter as its pre-send hook and no warning was logged.
C7_InitOutcome ==
    (pc = "running") =>
        IF settings.SENTRY_DSN \in {PyNone, PyStr("")}
        THEN /\ sdk = NotInitialized
             /\ Len(log) = 1
             /\ log[1].level = "WARNING"
        ELSE /\ sdk.t = "client"
             /\ sdk.inits = 1
             /\ sdk.options.before_send = "_before_send_filter"
             /\ Len(log) = 1
             /\ log[1].level = "INFO"

\* init_sentry has run on settings with an empty connection string
C7_Witness ==
    /\ pc = "running"
    /\ settings.SENTRY_DSN = PyStr("")
    /\ sdk = NotInitialized
    /\ log = <<WarningRecord>>

\* C8: when the SDK is configured, its release is GIT_COMMIT_SHA when the
\* settings provide one and "unknown" otherwise (attribute missing, None or
\* empty), and the release in the log record equals the SDK's release.
C8_ReleaseTag ==
    (pc = "running" /\ sdk.t = "client") =>
        /\ sdk.options.release =
              (IF settings.GIT_COMMIT_SHA \in {Absent, PyNone, PyStr("")}
               THEN PyStr("unknown")
               ELSE settings.GIT_COMMIT_SHA)
        /\ log[Len(log)].release = sdk.options.release

\* C9: when the SDK is configured, the trace sampling rate is 10% if APP_ENV
\* is "production" and 100% for every other value or a missing attribute,
\* the error sampling rate is 100%, and the environment tag is APP_ENV, or
\* "development" when the attribute is missing.
C9_Sampling ==
    (pc = "running" /\ sdk.t = "client") =>
        /\ sdk.options.traces_sample_rate =
              (IF settings.APP_ENV = PyStr("production") THEN 10 ELSE 100)
        /\ sdk.options.sample_rate = 100
        /\ sdk.options.environment =
              (IF settings.APP_ENV = Absent THEN PyStr("development")
               ELSE settings.APP_ENV)

\* the SDK configured for production
C9_Witness ==
    /\ pc = "running"
    /\ sdk.t = "client"
    /\ settings.APP_ENV = PyStr("production")
    /\ sdk.options.traces_sample_rate = 10

\* C10: the request-tracking hook reports a response as failed exactly when
\* its status code is in 500..599.
C10_FailedIffFiveXX ==
    (tracked.t = "response") =>
        (tracked.failed <=> tracked.status \in 500..599)

=============================================================================
